---------------------------- MODULE Spec2Model ----------------------------
(***************************************************************************)
(* Model of the development-environment configuration resolver of          *)
(* docker/osd-dev/scripts: parseArguments, resolveRepositoryHostPath,     *)
(* resolveRequiredRepositories and configureModeAndSecurity.               *)
(*                                                                         *)
(* A JavaScript string is a sequence of atoms.  Each of the characters the *)
(* code inspects ("-", "/", "=") is an atom of its own and every other     *)
(* atom is a run of ordinary characters, so startsWith, includes, split,   *)
(* template concatenation and the regular expression test work on the      *)
(* atom sequence exactly as they work on the characters.  The empty string *)
(* is <<>> and the JavaScript value undefined is the sequence Undefined.   *)
(***************************************************************************)
EXTENDS Integers, Sequences, FiniteSets, TLC

VARIABLES
  argv,       \* parseArguments: the token sequence
  envPaths,   \* EnvironmentPaths: currentRepoHostRoot, siblingRepoHostRoot
  fs,         \* the container file system: the set of paths that exist
  repoName,   \* resolveRepositoryHostPath: the repository asked for
  index,      \* parseArguments: the scan index (0-based, as in the code)
  config,     \* the Config / ScriptConfig record
  proc,       \* the process: env, exitCode (-1 while running), usage printed
  pc,         \* where the call is, or how it ended
  thrownAt,   \* source line of the throw that ended the call (0: none)
  result,     \* the value a resolve / configure call returned
  searched,   \* resolveRepositoryHostPath entered the candidate-base search
  requiredRepositories, \* resolveRequiredRepositories: the names asked for
  envMap      \* resolveRequiredRepositories: the mapping being filled

vars == <<argv, envPaths, fs, repoName, index, config, proc, pc, thrownAt,
          result, searched, requiredRepositories, envMap>>

-----------------------------------------------------------------------------
(* JavaScript values and string operations                                 *)

Undefined == <<"<undefined>">>

Truthy(s) == s # Undefined /\ s # <<>>

StartsWith(s, p) == Len(s) >= Len(p) /\ SubSeq(s, 1, Len(p)) = p

Includes(s, p) ==
  \E i \in 1..(Len(s) - Len(p) + 1) : SubSeq(s, i, i + Len(p) - 1) = p

RECURSIVE Split(_, _)
Split(s, sep) ==
  IF \A i \in 1..Len(s) : s[i] # sep
  THEN <<s>>
  ELSE LET i == CHOOSE k \in 1..Len(s) :
                  s[k] = sep /\ \A j \in 1..(k - 1) : s[j] # sep
       IN  <<SubSeq(s, 1, i - 1)>> \o Split(SubSeq(s, i + 1, Len(s)), sep)

\* const [a, b] = pieces: a missing element is undefined
Piece(pieces, n) == IF n <= Len(pieces) THEN pieces[n] ELSE Undefined

RECURSIVE CollapseSlashes(_)
CollapseSlashes(s) ==
  IF Len(s) < 2 THEN s
  ELSE IF s[1] = "/" /\ s[2] = "/" THEN CollapseSlashes(Tail(s))
  ELSE <<s[1]>> \o CollapseSlashes(Tail(s))

RECURSIVE stripTrailingSlash(_)
stripTrailingSlash(s) ==
  IF s # <<>> /\ s # Undefined /\ s[Len(s)] = "/"
  THEN stripTrailingSlash(SubSeq(s, 1, Len(s) - 1))
  ELSE s

\* path.resolve(base, seg) for an absolute base and segments without "." or
\* "..": an absolute seg replaces base, the result is normalised (no doubled
\* and no trailing slash, the root staying "/").
resolve(base, seg) ==
  LET joined == IF StartsWith(seg, <<"/">>) THEN seg
                ELSE IF seg = <<>> THEN base
                ELSE base \o <<"/">> \o seg
      norm   == stripTrailingSlash(CollapseSlashes(joined))
  IN  IF norm = <<>> THEN <<"/">> ELSE norm

-----------------------------------------------------------------------------
(* constants/app: FLAGS, ACTIONS (as allowedActions), PROFILES, the security-plugin aliases     *)

FLAGS_HELP                 == <<"-", "-", "help">>
FLAGS_HELP_SHORT           == <<"-", "h">>
FLAGS_PLUGINS_ROOT         == <<"-", "-", "plugins", "-", "root">>
FLAGS_PLUGINS_ROOT_WDP     == <<"-", "wdp">>
FLAGS_PLUGINS_ROOT_WZ_HOME == <<"-", "-", "wz", "-", "home">>
FLAGS_OS_VERSION           == <<"-", "os">>
FLAGS_OSD_VERSION          == <<"-", "osd">>
FLAGS_AGENTS_UP            == <<"-", "a">>
FLAGS_SAML                 == <<"-", "-", "saml">>
FLAGS_SERVER               == <<"-", "-", "server">>
FLAGS_SERVER_LOCAL         == <<"-", "-", "server", "-", "local">>
FLAGS_REPO                 == <<"-", "-", "repo">>
FLAGS_BASE                 == <<"-", "-", "base">>
FLAGS_INDEXER_LOCAL        == <<"-", "-", "indexer", "-", "local">>

allowedActions == { <<"up">>, <<"down">>, <<"stop">>, <<"start">> }

PROFILES_STANDARD     == <<"standard">>
PROFILES_SAML         == <<"saml">>
PROFILES_SERVER       == <<"server">>
PROFILES_SERVER_LOCAL == <<"server", "-", "local">>

SECURITY_PLUGIN_ALIASES == { <<"security">>, <<"wazuh", "-", "security">> }

SECURITY_PLUGIN_REPO_NAME ==
  <<"wazuh", "-", "security", "-", "dashboards", "-", "plugin">>

AGENTS_UP_VALUES == { <<"rpm">>, <<"deb">>, <<"without">>, <<>> }

-----------------------------------------------------------------------------
(* utils/pathUtils: host <-> container translation by prefix substitution   *)

ContainerCurrentRoot == <<"/", "mnt", "/", "current">>
ContainerSiblingRoot == <<"/", "mnt", "/", "sibling">>

toContainerPath(hostPath, env) ==
  IF ~Truthy(hostPath) THEN <<>>
  ELSE IF Truthy(env.currentRepoHostRoot)
          /\ StartsWith(hostPath, env.currentRepoHostRoot)
  THEN ContainerCurrentRoot
         \o SubSeq(hostPath, Len(env.currentRepoHostRoot) + 1, Len(hostPath))
  ELSE IF Truthy(env.siblingRepoHostRoot)
          /\ StartsWith(hostPath, env.siblingRepoHostRoot)
  THEN ContainerSiblingRoot
         \o SubSeq(hostPath, Len(env.siblingRepoHostRoot) + 1, Len(hostPath))
  ELSE <<>>

existsSync(files, path) == path \in files

\* ensureAccessibleHostPath returns normally exactly when this holds; it
\* throws otherwise, a ValidationError or a ConfigurationError.
Accessible(hostPath, env, files) ==
  LET containerPath == toContainerPath(hostPath, env)
  IN  Truthy(containerPath) /\ existsSync(files, containerPath)

AccessErrorKinds == {"ValidationError", "ConfigurationError"}

-----------------------------------------------------------------------------
(* types/config: a new Config()                                            *)

NewConfig ==
  [ action                 |-> <<>>,
    pluginsRoot            |-> <<>>,
    osVersion              |-> <<>>,
    osdVersion             |-> <<>>,
    agentsUp               |-> <<>>,
    enableSaml             |-> FALSE,
    serverFlagVersion      |-> <<>>,
    serverLocalFlagVersion |-> <<>>,
    mode                   |-> <<>>,
    modeVersion            |-> <<>>,
    useDashboardFromSource |-> FALSE,
    dashboardBase          |-> <<>>,
    useIndexerFromPackage  |-> FALSE,
    userRepositories       |-> <<>> ]

addUserRepositoryOverride(cfg, name, path) ==
  [cfg EXCEPT !.userRepositories = Append(@, [name |-> name, path |-> path])]

\* process.env entries that are not set hold Undefined
NewProcess ==
  [ env      |-> [ IMAGE_INDEXER_PACKAGE_TAG |-> Undefined,
                   WAZUH_STACK               |-> Undefined,
                   IMAGE_TAG                 |-> Undefined,
                   WAZUH_DASHBOARD_CONF      |-> Undefined,
                   SEC_CONFIG_FILE           |-> Undefined,
                   SEC_CONFIG_PATH           |-> Undefined ],
    exitCode |-> -1,
    usage    |-> FALSE ]

Outcomes == {"returned", "ValidationError", "ConfigurationError", "TypeError",
             "exit"}

Ended == pc \in Outcomes

-----------------------------------------------------------------------------
(* parseArguments: the inputs                                              *)

MaxUnits == 2

CurrentRepoHostRoot == <<"/", "cur">>
SiblingRepoHostRoot == <<"/", "sib">>

TOK_UP      == <<"up">>
TOK_DOWN    == <<"down">>
TOK_REL     == <<"rel">>
TOK_V1      == <<"4.12.0">>
TOK_V2      == <<"my", "-", "tag">>
TOK_RPM     == <<"rpm">>
TOK_NONE    == <<"none">>
TOK_TAG     == <<"5.0.0">>
TOK_BOGUS   == <<"-", "-", "bogus">>
TOK_ALIAS   == <<"security">>
PATH_ABS    == <<"/", "cur", "/", "abs", "/">>
PATH_DASH   == <<"/", "sib", "/", "dash">>
PATH_OUT    == <<"/", "out">>
PATH_SLASH  == <<"/", "sib", "/", "rel", "/">>
REPO_MY     == <<"my", "=", "/", "cur", "/", "my">>
REPO_SUB    == <<"a", "=", "/", "cur", "/", "plugins", "/", "a">>
REPO_SPLIT  == <<"a", "=", "/", "cur", "/", "x", "=", "/", "plugins", "/", "y">>
REPO_NOPATH == <<"a", "=">>

\* argv is a concatenation of at most MaxUnits of these token groups: every
\* flag alone (so that any token can follow it) and with a value.
Units ==
  { <<TOK_UP>>, <<TOK_DOWN>>, <<TOK_REL>>,
    <<FLAGS_HELP>>, <<FLAGS_HELP_SHORT>>,
    <<FLAGS_PLUGINS_ROOT, PATH_ABS>>, <<FLAGS_PLUGINS_ROOT>>,
    <<FLAGS_PLUGINS_ROOT_WDP, PATH_OUT>>, <<FLAGS_PLUGINS_ROOT_WZ_HOME>>,
    <<FLAGS_OS_VERSION, TOK_V1>>, <<FLAGS_OS_VERSION>>,
    <<FLAGS_OSD_VERSION, TOK_V1>>, <<FLAGS_OSD_VERSION>>,
    <<FLAGS_AGENTS_UP, TOK_RPM>>, <<FLAGS_AGENTS_UP, TOK_NONE>>,
    <<FLAGS_AGENTS_UP>>,
    <<FLAGS_SAML>>,
    <<FLAGS_SERVER, TOK_V1>>, <<FLAGS_SERVER>>,
    <<FLAGS_SERVER_LOCAL, TOK_V2>>, <<FLAGS_SERVER_LOCAL>>,
    <<FLAGS_SERVER, TOK_V1, FLAGS_SERVER_LOCAL, TOK_V2>>,
    <<FLAGS_REPO, REPO_MY>>, <<FLAGS_REPO, TOK_ALIAS>>,
    <<FLAGS_REPO, REPO_SUB>>, <<FLAGS_REPO, REPO_SPLIT>>,
    <<FLAGS_REPO, REPO_NOPATH>>, <<FLAGS_REPO>>,
    <<FLAGS_BASE>>, <<FLAGS_BASE, PATH_DASH>>, <<FLAGS_BASE, PATH_SLASH>>,
    <<FLAGS_INDEXER_LOCAL>>, <<FLAGS_INDEXER_LOCAL, TOK_TAG>>,
    <<FLAGS_INDEXER_LOCAL, TOK_UP>>,
    <<TOK_BOGUS>> }

RECURSIVE Flatten(_)
Flatten(us) == IF us = <<>> THEN <<>> ELSE Head(us) \o Flatten(Tail(us))

ArgvChoices ==
  { Flatten(us) : us \in UNION { [1..n -> Units] : n \in 0..MaxUnits } }

EnvChoices ==
  [ currentRepoHostRoot : {<<>>, CurrentRepoHostRoot},
    siblingRepoHostRoot : {<<>>, SiblingRepoHostRoot} ]

\* The container paths that exist while parseArguments runs.
ParseFiles ==
  { ContainerCurrentRoot,
    ContainerCurrentRoot \o <<"/", "plugins">>,
    ContainerCurrentRoot \o <<"/", "abs">>,
    ContainerCurrentRoot \o <<"/", "my">>,
    ContainerSiblingRoot,
    ContainerSiblingRoot \o <<"/", "dash">>,
    ContainerSiblingRoot \o <<"/", "wazuh", "-", "dashboard">>,
    ContainerSiblingRoot \o <<"/">> \o SECURITY_PLUGIN_REPO_NAME,
    ContainerSiblingRoot \o <<"/", "rel">> }

Init ==
  /\ argv \in ArgvChoices
  /\ envPaths \in EnvChoices
  /\ fs = ParseFiles
  /\ repoName = <<>>
  /\ index = 0
  /\ config = NewConfig
  /\ proc = NewProcess
  /\ pc = "scan"
  /\ thrownAt = 0
  /\ result = <<>>
  /\ searched = FALSE
  /\ requiredRepositories = <<>>
  /\ envMap = <<>>

-----------------------------------------------------------------------------
(* parseArguments: the scan loop, one action per case of the switch         *)

\* argv[i] for a 0-based i: undefined past the end
ArgAt(i) == IF i < Len(argv) THEN argv[i + 1] ELSE Undefined

Scanning(flags) == pc = "scan" /\ index < Len(argv) /\ ArgAt(index) \in flags

Throw(kind, line) == pc' = kind /\ thrownAt' = line

frame == <<argv, envPaths, fs, repoName, result, searched,
          requiredRepositories, envMap>>

\* if (!version || version.startsWith('-'))
valueMissing(value) == ~Truthy(value) \/ StartsWith(value, <<"-">>)

\* if (!path || !path.startsWith('/'))
pathMissing(path) == ~Truthy(path) \/ ~StartsWith(path, <<"/">>)

\* the usage printed and the process left with status 0
printUsageAndExit_Success(p) == [p EXCEPT !.usage = TRUE, !.exitCode = 0]

\* lines 131-169: log the usage, process.exit(1)
printUsageAndExit(p) == [p EXCEPT !.usage = TRUE, !.exitCode = 1]

ScanHelp ==
  /\ Scanning({FLAGS_HELP, FLAGS_HELP_SHORT})
  /\ proc' = printUsageAndExit(proc)
  /\ pc' = "exit"
  /\ UNCHANGED <<frame, index, config, thrownAt>>

ScanPluginsRoot ==
  /\ Scanning({FLAGS_PLUGINS_ROOT, FLAGS_PLUGINS_ROOT_WDP,
               FLAGS_PLUGINS_ROOT_WZ_HOME})
  /\ LET path == ArgAt(index + 1)
         root == stripTrailingSlash(path)
     IN  IF pathMissing(path)
         THEN /\ Throw("ValidationError", 197)
              /\ index' = index + 1
              /\ UNCHANGED config
         ELSE /\ config' = [config EXCEPT !.pluginsRoot = root]
              /\ IF Accessible(root, envPaths, fs)
                 THEN /\ index' = index + 2
                      /\ UNCHANGED <<pc, thrownAt>>
                 ELSE /\ \E kind \in AccessErrorKinds : Throw(kind, 202)
                      /\ index' = index + 1
  /\ UNCHANGED <<frame, proc>>

ScanOsVersion ==
  /\ Scanning({FLAGS_OS_VERSION})
  /\ LET version == ArgAt(index + 1)
     IN  IF valueMissing(version)
         THEN /\ Throw("ValidationError", 209)
              /\ index' = index + 1
              /\ UNCHANGED config
         ELSE /\ config' = [config EXCEPT !.osVersion = version]
              /\ index' = index + 2
              /\ UNCHANGED <<pc, thrownAt>>
  /\ UNCHANGED <<frame, proc>>

ScanOsdVersion ==
  /\ Scanning({FLAGS_OSD_VERSION})
  /\ LET version == ArgAt(index + 1)
     IN  IF valueMissing(version)
         THEN /\ Throw("ValidationError", 221)
              /\ index' = index + 1
              /\ UNCHANGED config
         ELSE /\ config' = [config EXCEPT !.osdVersion = version]
              /\ index' = index + 2
              /\ UNCHANGED <<pc, thrownAt>>
  /\ UNCHANGED <<frame, proc>>

\* if (val === 'none' || val === '0') val = 'without'
agentsUpAlias(val) ==
  IF val = <<"none">> \/ val = <<"0">> THEN <<"without">> ELSE val

ScanAgentsUp ==
  /\ Scanning({FLAGS_AGENTS_UP})
  /\ LET val == agentsUpAlias(ArgAt(index + 1))
     IN  /\ config' = [config EXCEPT !.agentsUp = val]
         /\ IF val \notin AGENTS_UP_VALUES
            THEN /\ Throw("ValidationError", 236)
                 /\ index' = index + 1
            ELSE /\ index' = index + 2
                 /\ UNCHANGED <<pc, thrownAt>>
  /\ UNCHANGED <<frame, proc>>

\* the --saml case without the index++ of line 244
ScanSaml_NoAdvance ==
  /\ Scanning({FLAGS_SAML})
  /\ config' = [config EXCEPT !.enableSaml = TRUE]
  /\ index' = index
  /\ UNCHANGED <<frame, proc, pc, thrownAt>>

ScanSaml ==
  /\ Scanning({FLAGS_SAML})
  /\ config' = [config EXCEPT !.enableSaml = TRUE]
  /\ index' = index + 1
  /\ UNCHANGED <<frame, proc, pc, thrownAt>>

ScanServer ==
  /\ Scanning({FLAGS_SERVER})
  /\ LET version == ArgAt(index + 1)
     IN  IF valueMissing(version)
         THEN /\ Throw("ValidationError", 251)
              /\ index' = index + 1
              /\ UNCHANGED config
         ELSE /\ config' = [config EXCEPT !.serverFlagVersion = version]
              /\ index' = index + 2
              /\ UNCHANGED <<pc, thrownAt>>
  /\ UNCHANGED <<frame, proc>>

ScanServerLocal ==
  /\ Scanning({FLAGS_SERVER_LOCAL})
  /\ LET version == ArgAt(index + 1)
     IN  IF valueMissing(version)
         THEN /\ Throw("ValidationError", 263)
              /\ index' = index + 1
              /\ UNCHANGED config
         ELSE /\ config' = [config EXCEPT !.serverLocalFlagVersion = version]
              /\ index' = index + 2
              /\ UNCHANGED <<pc, thrownAt>>
  /\ UNCHANGED <<frame, proc>>

\* const [repoName, repoPath] = repoSpec.split('=')
repoSpecName(repoSpec) == Piece(Split(repoSpec, "="), 1)

repoSpecPath(repoSpec) == Piece(Split(repoSpec, "="), 2)

\* if (repoPath.includes('/plugins/'))
invalidRepoSubfolder(repoPath) == Includes(repoPath, <<"/", "plugins", "/">>)

\* siblingFolderName without the alias table
siblingFolderName_Literal(name) == name

\* SECURITY_PLUGIN_ALIASES.includes(repoName) ? SECURITY_PLUGIN_REPO_NAME : repoName
siblingFolderName(name) ==
  IF name \in SECURITY_PLUGIN_ALIASES THEN SECURITY_PLUGIN_REPO_NAME ELSE name

inferredHostPath(name, env) ==
  stripTrailingSlash(resolve(env.siblingRepoHostRoot, siblingFolderName(name)))

ScanRepo ==
  /\ Scanning({FLAGS_REPO})
  /\ LET repoSpec == ArgAt(index + 1)
         name     == repoSpecName(repoSpec)
         path     == repoSpecPath(repoSpec)
         inferred == inferredHostPath(repoSpec, envPaths)
     IN  IF repoSpec = Undefined
         THEN \* repoSpec.includes on undefined
              /\ Throw("TypeError", 274)
              /\ index' = index + 1
              /\ UNCHANGED config
         ELSE IF Includes(repoSpec, <<"=">>)
         THEN IF ~Truthy(name) \/ ~Truthy(path)
              THEN /\ Throw("ValidationError", 277)
                   /\ index' = index + 1
                   /\ UNCHANGED config
              ELSE IF invalidRepoSubfolder(path)
              THEN /\ Throw("ValidationError", 282)
                   /\ index' = index + 1
                   /\ UNCHANGED config
              ELSE /\ config' = addUserRepositoryOverride(config, name, path)
                   /\ index' = index + 2
                   /\ UNCHANGED <<pc, thrownAt>>
         ELSE IF ~Truthy(envPaths.siblingRepoHostRoot)
              THEN /\ Throw("ValidationError", 302)
                   /\ index' = index + 1
                   /\ UNCHANGED config
              ELSE IF ~Accessible(inferred, envPaths, fs)
              THEN /\ \E kind \in AccessErrorKinds : Throw(kind, 314)
                   /\ index' = index + 1
                   /\ UNCHANGED config
              ELSE /\ config' =
                        addUserRepositoryOverride(config, repoSpec, inferred)
                   /\ index' = index + 2
                   /\ UNCHANGED <<pc, thrownAt>>
  /\ UNCHANGED <<frame, proc>>

\* nextArg && !nextArg.startsWith('-') && !allowedActions.has(nextArg)
placeholderValue(nextArg) ==
  Truthy(nextArg) /\ ~StartsWith(nextArg, <<"-">>) /\ nextArg \notin allowedActions

ScanBase ==
  /\ Scanning({FLAGS_BASE})
  /\ LET nextArg  == ArgAt(index + 1)
         basePath == stripTrailingSlash(nextArg)
         cfg      == [config EXCEPT !.useDashboardFromSource = TRUE]
     IN  IF Truthy(nextArg) /\ StartsWith(nextArg, <<"/">>)
         THEN IF Accessible(basePath, envPaths, fs)
              THEN /\ config' = [cfg EXCEPT !.dashboardBase = basePath]
                   /\ index' = index + 2
                   /\ UNCHANGED <<pc, thrownAt>>
              ELSE /\ \E kind \in AccessErrorKinds : Throw(kind, 337)
                   /\ config' = cfg
                   /\ UNCHANGED index
         ELSE IF placeholderValue(nextArg)
         THEN /\ config' = cfg
              /\ index' = index + 2
              /\ UNCHANGED <<pc, thrownAt>>
         ELSE /\ config' = cfg
              /\ index' = index + 1
              /\ UNCHANGED <<pc, thrownAt>>
  /\ UNCHANGED <<frame, proc>>

\* if (nextArg): the first branch of FLAGS.INDEXER_LOCAL
indexerTagGiven(nextArg) == Truthy(nextArg)

ScanIndexerLocal ==
  /\ Scanning({FLAGS_INDEXER_LOCAL})
  /\ LET nextArg == ArgAt(index + 1)
     IN  /\ config' = [config EXCEPT !.useIndexerFromPackage = TRUE]
         /\ IF indexerTagGiven(nextArg)
            THEN /\ proc' = [proc EXCEPT
                               !.env.IMAGE_INDEXER_PACKAGE_TAG = nextArg]
                 /\ index' = index + 2
            ELSE IF placeholderValue(nextArg)
            THEN /\ index' = index + 2
                 /\ UNCHANGED proc
            ELSE /\ index' = index + 1
                 /\ UNCHANGED proc
  /\ UNCHANGED <<frame, pc, thrownAt>>

RecognizedFlags ==
  { FLAGS_HELP, FLAGS_HELP_SHORT, FLAGS_PLUGINS_ROOT, FLAGS_PLUGINS_ROOT_WDP,
    FLAGS_PLUGINS_ROOT_WZ_HOME, FLAGS_OS_VERSION, FLAGS_OSD_VERSION,
    FLAGS_AGENTS_UP, FLAGS_SAML, FLAGS_SERVER, FLAGS_SERVER_LOCAL, FLAGS_REPO,
    FLAGS_BASE, FLAGS_INDEXER_LOCAL }

ScanDefault ==
  /\ pc = "scan" /\ index < Len(argv) /\ ArgAt(index) \notin RecognizedFlags
  /\ LET arg == ArgAt(index)
     IN  IF StartsWith(arg, <<"-">>)
         THEN /\ Throw("ValidationError", 377)
              /\ UNCHANGED <<index, config>>
         ELSE IF arg \in allowedActions
         THEN IF Truthy(config.action)
              THEN /\ Throw("ValidationError", 382)
                   /\ UNCHANGED <<index, config>>
              ELSE /\ config' = [config EXCEPT !.action = arg]
                   /\ index' = index + 1
                   /\ UNCHANGED <<pc, thrownAt>>
         ELSE /\ Throw("ValidationError", 391)
              /\ UNCHANGED <<index, config>>
  /\ UNCHANGED <<frame, proc>>

-----------------------------------------------------------------------------
(* parseArguments: after the scan                                          *)

WAZUH_DASHBOARD_DIR == <<"wazuh", "-", "dashboard">>

\* the auto-detection replacing a base given on the command line
autoDetectDashboardBase_Always(cfg) == cfg.useDashboardFromSource

\* if (config.useDashboardFromSource && !config.dashboardBase)
autoDetectDashboardBase(cfg) ==
  cfg.useDashboardFromSource /\ ~Truthy(cfg.dashboardBase)

\* lines 396-420: resolve the dashboard base if requested and not provided
ResolveDashboardBase ==
  /\ pc = "scan" /\ index >= Len(argv)
  /\ LET hostRoot  == envPaths.siblingRepoHostRoot
         candidate == stripTrailingSlash(resolve(hostRoot, WAZUH_DASHBOARD_DIR))
         auto      == autoDetectDashboardBase(config)
         cfg       == IF auto THEN [config EXCEPT !.dashboardBase = candidate]
                      ELSE config
     IN  IF auto /\ ~Truthy(hostRoot)
         THEN /\ Throw("ConfigurationError", 400)
              /\ UNCHANGED config
         ELSE IF auto /\ ~Truthy(toContainerPath(candidate, envPaths))
         THEN /\ Throw("ValidationError", 406)
              /\ UNCHANGED config
         ELSE /\ config' = cfg
              /\ IF ~cfg.useDashboardFromSource
                 THEN /\ pc' = "defaulting"
                      /\ UNCHANGED thrownAt
                 ELSE IF ~Truthy(cfg.dashboardBase)
                         \/ ~StartsWith(cfg.dashboardBase, <<"/">>)
                 THEN Throw("ValidationError", 413)
                 ELSE IF ~Accessible(cfg.dashboardBase, envPaths, fs)
                 THEN \E kind \in AccessErrorKinds : Throw(kind, 415)
                 ELSE /\ pc' = "defaulting"
                      /\ UNCHANGED thrownAt
  /\ UNCHANGED <<frame, index, proc>>

\* lines 422-431: default the plugins root, check it
DefaultPluginsRoot ==
  /\ pc = "defaulting"
  /\ LET cfg == IF ~Truthy(config.pluginsRoot)
                   /\ Truthy(envPaths.currentRepoHostRoot)
                THEN [config EXCEPT !.pluginsRoot = stripTrailingSlash(
                        resolve(envPaths.currentRepoHostRoot, <<"plugins">>))]
                ELSE config
     IN  /\ config' = cfg
         /\ IF Truthy(cfg.pluginsRoot)
               /\ ~Accessible(cfg.pluginsRoot, envPaths, fs)
            THEN \E kind \in AccessErrorKinds : Throw(kind, 430)
            ELSE /\ pc' = "mapping"
                 /\ UNCHANGED thrownAt
  /\ UNCHANGED <<frame, index, proc>>

\* the conflict check reading modeVersion, which is still unset
cannotCombineServerFlags_WrongField(cfg) ==
  Truthy(cfg.serverFlagVersion) /\ Truthy(cfg.modeVersion)

\* if (config.serverFlagVersion && config.serverLocalFlagVersion)
cannotCombineServerFlags(cfg) ==
  Truthy(cfg.serverFlagVersion) /\ Truthy(cfg.serverLocalFlagVersion)

\* the mode mapping testing --saml before the server flags
mapMode_SamlFirst(cfg) ==
  IF cfg.enableSaml /\ ~Truthy(cfg.mode)
  THEN [cfg EXCEPT !.mode = PROFILES_SAML]
  ELSE IF Truthy(cfg.serverFlagVersion)
  THEN [cfg EXCEPT !.mode = PROFILES_SERVER,
                   !.modeVersion = cfg.serverFlagVersion]
  ELSE IF Truthy(cfg.serverLocalFlagVersion)
  THEN [cfg EXCEPT !.mode = PROFILES_SERVER_LOCAL,
                   !.modeVersion = cfg.serverLocalFlagVersion]
  ELSE cfg

\* lines 438-446: map the flags to mode / modeVersion
mapMode(cfg) ==
  IF Truthy(cfg.serverFlagVersion)
  THEN [cfg EXCEPT !.mode = PROFILES_SERVER,
                   !.modeVersion = cfg.serverFlagVersion]
  ELSE IF Truthy(cfg.serverLocalFlagVersion)
  THEN [cfg EXCEPT !.mode = PROFILES_SERVER_LOCAL,
                   !.modeVersion = cfg.serverLocalFlagVersion]
  ELSE IF cfg.enableSaml /\ ~Truthy(cfg.mode)
  THEN [cfg EXCEPT !.mode = PROFILES_SAML]
  ELSE cfg

\* lines 433-448
MapMode ==
  /\ pc = "mapping"
  /\ IF cannotCombineServerFlags(config)
     THEN /\ Throw("ValidationError", 435)
          /\ UNCHANGED config
     ELSE /\ config' = mapMode(config)
          /\ pc' = "returned"
          /\ UNCHANGED thrownAt
  /\ UNCHANGED <<frame, index, proc>>

Next ==
  \/ ScanHelp
  \/ ScanPluginsRoot
  \/ ScanOsVersion
  \/ ScanOsdVersion
  \/ ScanAgentsUp
  \/ ScanSaml
  \/ ScanServer
  \/ ScanServerLocal
  \/ ScanRepo
  \/ ScanBase
  \/ ScanIndexerLocal
  \/ ScanDefault
  \/ ResolveDashboardBase
  \/ DefaultPluginsRoot
  \/ MapMode

Spec == Init /\ [][Next]_vars

\* parseArguments is one synchronous call: once entered, the loop and the
\* statements after it run to the return, the throw or the exit
SpecFair == Spec /\ WF_vars(Next)

-----------------------------------------------------------------------------
(* resolveRepositoryHostPath                                               *)

\* config.userRepositories.find(o => o.name === repoName): the first entry
\* with that name, undefined when there is none
findOverride(overrides, name) ==
  IF \E i \in 1..Len(overrides) : overrides[i].name = name
  THEN overrides[CHOOSE i \in 1..Len(overrides) :
                   /\ overrides[i].name = name
                   /\ \A j \in 1..(i - 1) : overrides[j].name # name]
  ELSE [name |-> Undefined, path |-> Undefined]

\* override?.path ? stripTrailingSlash(override.path) : ''
overrideHostPath(overrides, name) ==
  LET override == findOverride(overrides, name)
  IN  IF Truthy(override.path) THEN stripTrailingSlash(override.path) ELSE <<>>

\* the absolute-path check accepting any non-empty path
notAbsolute_EmptyOnly(hostPath) == hostPath = <<>>

\* if (!hostPath.startsWith('/'))
notAbsolute(hostPath) == ~StartsWith(hostPath, <<"/">>)

DASHBOARD_PLUGINS_DIR == <<"wazuh", "-", "dashboard", "-", "plugins">>

candidateBases(cfg, env) ==
  (IF Truthy(cfg.pluginsRoot) THEN <<cfg.pluginsRoot>> ELSE <<>>)
    \o <<env.currentRepoHostRoot>>
    \o (IF Truthy(env.siblingRepoHostRoot)
        THEN << resolve(env.siblingRepoHostRoot, DASHBOARD_PLUGINS_DIR),
                resolve(env.siblingRepoHostRoot, WAZUH_DASHBOARD_DIR) >>
        ELSE <<>>)

\* the sub-paths with {base}/{repoName} probed first
candidatesOf_RepoFirst(base, name) ==
  << base \o <<"/">> \o name, base \o <<"/", "plugins", "/">> \o name, base >>

\* the three sub-paths probed under a base, in the order of the code
candidatesOf(base, name) ==
  << base \o <<"/", "plugins", "/">> \o name, base \o <<"/">> \o name, base >>

\* the candidate is reachable in the container and holds a package.json
candidateAccepted(candidate, env, files) ==
  LET containerCandidate == toContainerPath(candidate, env)
  IN  /\ Truthy(containerCandidate)
      /\ existsSync(files, containerCandidate)
      /\ existsSync(files, resolve(containerCandidate, <<"package.json">>))

\* the for loop over the candidates of one base: the first accepted
\* candidate, <<>> when the loop ends without one
firstAccepted(base, name, env, files) ==
  LET cs == candidatesOf(base, name)
  IN  IF base = <<>> \/ \A k \in 1..Len(cs) : ~candidateAccepted(cs[k], env, files)
      THEN <<>>
      ELSE cs[CHOOSE k \in 1..Len(cs) :
                /\ candidateAccepted(cs[k], env, files)
                /\ \A j \in 1..(k - 1) : ~candidateAccepted(cs[j], env, files)]

\* candidateBases.map(stripTrailingSlash).find(...): hostPath as the search
\* leaves it, <<>> when no base resolves
searchCandidateBases(name, cfg, env, files) ==
  LET bases == [i \in DOMAIN candidateBases(cfg, env) |->
                  stripTrailingSlash(candidateBases(cfg, env)[i])]
      hit(i) == Truthy(firstAccepted(bases[i], name, env, files))
  IN  IF \A i \in 1..Len(bases) : ~hit(i)
      THEN <<>>
      ELSE firstAccepted(
             bases[CHOOSE i \in 1..Len(bases) :
                     hit(i) /\ \A j \in 1..(i - 1) : ~hit(j)],
             name, env, files)

\* The outcomes of one call: how it ends, the path returned, whether the
\* candidate search ran, the line of the throw.
ResolveOutcome(kind, path, search, line) ==
  [kind |-> kind, path |-> path, searched |-> search, line |-> line]

\* the same call with lines 76-80 left out: the chosen path is returned as is
resolveRepositoryHostPath_Unchecked(name, cfg, env, files) ==
  LET hostPath == overrideHostPath(cfg.userRepositories, name)
      found    == searchCandidateBases(name, cfg, env, files)
      checked(path, search) ==
        { ResolveOutcome("returned", stripTrailingSlash(path), search, 0) }
  IN  IF Truthy(hostPath)
      THEN IF notAbsolute(hostPath)
           THEN { ResolveOutcome("ValidationError", <<>>, FALSE, 29) }
           ELSE checked(hostPath, FALSE)
      ELSE IF ~Truthy(env.currentRepoHostRoot)
           THEN { ResolveOutcome("ConfigurationError", <<>>, FALSE, 33) }
           ELSE IF ~Truthy(found)
           THEN { ResolveOutcome("ValidationError", <<>>, TRUE, 72) }
           ELSE checked(found, TRUE)

resolveRepositoryHostPath(name, cfg, env, files) ==
  LET hostPath == overrideHostPath(cfg.userRepositories, name)
      found    == searchCandidateBases(name, cfg, env, files)
      checked(path, search) ==
        IF Accessible(path, env, files)
        THEN { ResolveOutcome("returned", stripTrailingSlash(path), search, 0) }
        ELSE { ResolveOutcome(kind, <<>>, search, 76) : kind \in AccessErrorKinds }
  IN  IF Truthy(hostPath)
      THEN IF notAbsolute(hostPath)
           THEN { ResolveOutcome("ValidationError", <<>>, FALSE, 29) }
           ELSE checked(hostPath, FALSE)
      ELSE IF ~Truthy(env.currentRepoHostRoot)
           THEN { ResolveOutcome("ConfigurationError", <<>>, FALSE, 33) }
           ELSE IF ~Truthy(found)
           THEN { ResolveOutcome("ValidationError", <<>>, TRUE, 72) }
           ELSE checked(found, TRUE)

ResolveRepositoryHostPath ==
  /\ pc = "resolve"
  /\ \E o \in resolveRepositoryHostPath(repoName, config, envPaths, fs) :
       /\ pc' = o.kind
       /\ result' = o.path
       /\ searched' = o.searched
       /\ thrownAt' = o.line
  /\ UNCHANGED <<argv, envPaths, fs, repoName, index, config, proc,
                 requiredRepositories, envMap>>

MaxOverrides == 2
MaxManifests == 2

REPO_A == <<"a">>
REPO_B == <<"b">>

OverridePaths ==
  { <<>>, <<"/">>, <<"rel", "/", "a">>, <<"/", "cur", "/", "x">>,
    <<"/", "cur", "/", "y", "/">>, <<"/", "out", "/", "z">>,
    <<"/", "cur", "/", "gone">> }

OverrideChoices ==
  UNION { [1..n -> [name : {REPO_A, REPO_B}, path : OverridePaths]] :
            n \in 0..MaxOverrides }

PluginsRootChoices == { <<>>, <<"/", "cur", "/", "root">> }

\* the container directories the candidate search can probe for REPO_A
SearchDirs ==
  UNION { { toContainerPath(candidatesOf(b, REPO_A)[k],
                            [currentRepoHostRoot |-> CurrentRepoHostRoot,
                             siblingRepoHostRoot |-> SiblingRepoHostRoot]) :
              k \in 1..3 } :
          b \in { <<"/", "cur", "/", "root">>, CurrentRepoHostRoot,
                  resolve(SiblingRepoHostRoot, DASHBOARD_PLUGINS_DIR),
                  resolve(SiblingRepoHostRoot, WAZUH_DASHBOARD_DIR) } }

OverrideDirs ==
  { ContainerCurrentRoot \o <<"/", "x">>, ContainerCurrentRoot \o <<"/", "y">> }

WithManifests(dirs) == dirs \cup { resolve(d, <<"package.json">>) : d \in dirs }

\* file systems: up to MaxManifests probed directories hold a package.json;
\* the other probed directories either all exist without one or are absent
FileSystems ==
  { OverrideDirs \cup WithManifests(m) \cup bare :
      m \in { d \in SUBSET SearchDirs : Cardinality(d) <= MaxManifests },
      bare \in { {}, SearchDirs } }

\* every override sequence, over a file system with one repository found
InitOverrides ==
  /\ config \in { [NewConfig EXCEPT !.userRepositories = o, !.pluginsRoot = r] :
                    o \in OverrideChoices, r \in PluginsRootChoices }
  /\ fs = OverrideDirs \cup WithManifests({ContainerCurrentRoot \o <<"/", "a">>})

\* every file system, with at most one override
InitSearch ==
  /\ config \in { [NewConfig EXCEPT !.userRepositories = o, !.pluginsRoot = r] :
                    o \in { c \in OverrideChoices : Len(c) <= 1 },
                    r \in PluginsRootChoices }
  /\ fs \in FileSystems

InitResolve ==
  /\ InitOverrides \/ InitSearch
  /\ repoName \in {REPO_A, REPO_B}
  /\ envPaths \in EnvChoices
  /\ argv = <<>>
  /\ index = 0
  /\ proc = NewProcess
  /\ pc = "resolve"
  /\ thrownAt = 0
  /\ result = <<>>
  /\ searched = FALSE
  /\ requiredRepositories = <<>>
  /\ envMap = <<>>

NextResolve == ResolveRepositoryHostPath

SpecResolve == InitResolve /\ [][NextResolve]_vars

-----------------------------------------------------------------------------
(* resolveRequiredRepositories                                             *)

MaxRequired == 2

\* utils/envUtils: the environment variable derived from a repository name
toRepositoryEnvVar(repo) == <<"REPO_">> \o repo

\* new Map<string, string>()
NewMap == <<>>

\* a map rebuilt at every iteration
envMapSet_Fresh(map, varName, path) == [k \in {varName} |-> path]

\* envMap.set(varName, path)
envMapSet(map, varName, path) ==
  [k \in DOMAIN map \cup {varName} |-> IF k = varName THEN path ELSE map[k]]

\* one iteration of the for loop: resolve the next name, store its path; a
\* throw of resolveRepositoryHostPath ends the call
ResolveNextRepository ==
  /\ pc = "resolving"
  /\ index < Len(requiredRepositories)
  /\ LET repo == requiredRepositories[index + 1]
     IN  \E o \in resolveRepositoryHostPath(repo, config, envPaths, fs) :
           IF o.kind = "returned"
           THEN /\ envMap' = envMapSet(envMap, toRepositoryEnvVar(repo), o.path)
                /\ index' = index + 1
                /\ UNCHANGED <<pc, thrownAt>>
           ELSE /\ pc' = o.kind
                /\ thrownAt' = o.line
                /\ UNCHANGED <<envMap, index>>
  /\ UNCHANGED <<argv, envPaths, fs, repoName, config, proc, result, searched,
                 requiredRepositories>>

\* return envMap
ReturnEnvMap ==
  /\ pc = "resolving"
  /\ index >= Len(requiredRepositories)
  /\ pc' = "returned"
  /\ result' = envMap
  /\ UNCHANGED <<argv, envPaths, fs, repoName, index, config, proc, thrownAt,
                 searched, requiredRepositories, envMap>>

RequiredChoices ==
  UNION { [1..n -> {REPO_A, REPO_B}] : n \in 0..MaxRequired }

\* file systems: the repository a found under the current root or nowhere
RequiredFileSystems ==
  { OverrideDirs,
    OverrideDirs \cup WithManifests({ContainerCurrentRoot \o <<"/", "a">>}),
    OverrideDirs \cup WithManifests({ContainerCurrentRoot}) }

InitRequired ==
  /\ requiredRepositories \in RequiredChoices
  /\ config \in { [NewConfig EXCEPT !.userRepositories = o] :
                    o \in { c \in OverrideChoices : Len(c) <= 1 } }
  /\ fs \in RequiredFileSystems
  /\ envPaths \in EnvChoices
  /\ envMap = NewMap
  /\ repoName = <<>>
  /\ argv = <<>>
  /\ index = 0
  /\ proc = NewProcess
  /\ pc = "resolving"
  /\ thrownAt = 0
  /\ result = <<>>
  /\ searched = FALSE

NextRequired == ResolveNextRepository \/ ReturnEnvMap

SpecRequired == InitRequired /\ [][NextRequired]_vars

-----------------------------------------------------------------------------
(* configureModeAndSecurity                                                *)

OSD_MAJOR_2X == <<"2.x">>

ConfigDir == <<".", "/", "config", "/">> \o OSD_MAJOR_2X

DASHBOARD_CONF      == ConfigDir \o <<"/", "osd", "/", "opensearch_dashboards.yml">>
DASHBOARD_CONF_SAML ==
  ConfigDir \o <<"/", "osd", "/", "opensearch_dashboards_saml.yml">>
SEC_CONFIG          == ConfigDir \o <<"/", "os", "/", "config.yml">>
SEC_CONFIG_SAML     == ConfigDir \o <<"/", "os", "/", "config", "-", "saml.yml">>
SECURITY_CONFIG_PATH_2X ==
  <<"/", "usr", "/", "share", "/", "opensearch", "/", "config", "/",
    "opensearch", "-", "security">>

\* SAML taken from the flag alone
samlEnabled_FlagOnly(cfg) == cfg.enableSaml

\* Boolean(config.enableSaml) || config.mode === PROFILES.SAML
samlEnabled(cfg) == cfg.enableSaml \/ cfg.mode = PROFILES_SAML

\* the composite-mode test recognising only the agents-up suffixes
compositeServerLocal_KnownSuffix(mode) ==
  \E a \in {<<"rpm">>, <<"deb">>, <<"without">>} :
     mode = PROFILES_SERVER_LOCAL \o <<"-">> \o a

\* new RegExp(`^${PROFILES.SERVER_LOCAL}-`).test(config.mode)
compositeServerLocal(mode) == StartsWith(mode, PROFILES_SERVER_LOCAL \o <<"-">>)

\* the version check missing the empty string
versionMissing_UndefinedOnly(cfg) == cfg.modeVersion = Undefined

\* if (!config.modeVersion)
versionMissing(cfg) == ~Truthy(cfg.modeVersion)

\* the returned profile without the agents-up suffix
serverLocalProfile_NoSuffix(cfg) == PROFILES_SERVER_LOCAL

\* config.agentsUp ? `${PROFILES.SERVER_LOCAL}-${config.agentsUp}` : PROFILES.SERVER_LOCAL
serverLocalProfile(cfg) ==
  IF Truthy(cfg.agentsUp) THEN PROFILES_SERVER_LOCAL \o <<"-">> \o cfg.agentsUp
  ELSE PROFILES_SERVER_LOCAL

\* lines 52-65: the configuration files written before the mode is looked at
securityEnvironment(cfg, env) ==
  [env EXCEPT
     !.WAZUH_DASHBOARD_CONF =
        IF samlEnabled(cfg) THEN DASHBOARD_CONF_SAML ELSE DASHBOARD_CONF,
     !.SEC_CONFIG_FILE = IF samlEnabled(cfg) THEN SEC_CONFIG_SAML ELSE SEC_CONFIG,
     !.SEC_CONFIG_PATH = SECURITY_CONFIG_PATH_2X]

ConfigureOutcome(kind, value, env, line) ==
  [kind |-> kind, value |-> value, env |-> env, line |-> line]

configureModeAndSecurity(cfg, env) ==
  LET env1 == securityEnvironment(cfg, env)
  IN  IF compositeServerLocal(cfg.mode)
      THEN ConfigureOutcome("ValidationError", <<>>, env1, 70)
      ELSE IF cfg.mode = PROFILES_SERVER
      THEN IF versionMissing(cfg)
           THEN ConfigureOutcome("ValidationError", <<>>, env1, 75)
           ELSE ConfigureOutcome("returned", PROFILES_SERVER,
                                 [env1 EXCEPT !.WAZUH_STACK = cfg.modeVersion], 0)
      ELSE IF cfg.mode = PROFILES_SERVER_LOCAL
      THEN IF versionMissing(cfg)
           THEN ConfigureOutcome("ValidationError", <<>>, env1, 83)
           ELSE ConfigureOutcome("returned", serverLocalProfile(cfg),
                                 [env1 EXCEPT !.IMAGE_TAG = cfg.modeVersion], 0)
      ELSE IF cfg.mode = PROFILES_SAML
      THEN ConfigureOutcome("returned", PROFILES_SAML, env1, 0)
      ELSE ConfigureOutcome("returned", PROFILES_STANDARD, env1, 0)

ConfigureModeAndSecurity ==
  /\ pc = "configure"
  /\ LET o == configureModeAndSecurity(config, proc.env)
     IN  /\ pc' = o.kind
         /\ result' = o.value
         /\ proc' = [proc EXCEPT !.env = o.env]
         /\ thrownAt' = o.line
  /\ UNCHANGED <<argv, envPaths, fs, repoName, index, config, searched,
                 requiredRepositories, envMap>>

ModeChoices ==
  { <<>>, PROFILES_STANDARD, PROFILES_SAML, PROFILES_SERVER,
    PROFILES_SERVER_LOCAL, PROFILES_SERVER_LOCAL \o <<"-", "rpm">>,
    PROFILES_SERVER_LOCAL \o <<"-">> }

ModeVersionChoices == { <<>>, Undefined, TOK_V1, TOK_V2 }

AgentsUpChoices == { <<>>, <<"rpm">>, <<"deb">>, <<"without">> }

PresetChoices == { Undefined, <<"preset">> }

InitConfigure ==
  /\ config \in { [NewConfig EXCEPT !.mode = m, !.modeVersion = v,
                                    !.agentsUp = a, !.enableSaml = s] :
                    m \in ModeChoices, v \in ModeVersionChoices,
                    a \in AgentsUpChoices, s \in BOOLEAN }
  /\ proc \in { [NewProcess EXCEPT !.env.WAZUH_STACK = w, !.env.IMAGE_TAG = t] :
                  w \in PresetChoices, t \in PresetChoices }
  /\ argv = <<>>
  /\ envPaths = [currentRepoHostRoot |-> CurrentRepoHostRoot,
                 siblingRepoHostRoot |-> SiblingRepoHostRoot]
  /\ fs = {}
  /\ repoName = <<>>
  /\ index = 0
  /\ pc = "configure"
  /\ thrownAt = 0
  /\ result = <<>>
  /\ searched = FALSE
  /\ requiredRepositories = <<>>
  /\ envMap = <<>>

NextConfigure == ConfigureModeAndSecurity

SpecConfigure == InitConfigure /\ [][NextConfigure]_vars

-----------------------------------------------------------------------------
(* One resolution pass: parseArguments, then configureModeAndSecurity on    *)
(* the Config it returned, in the same process environment; next to it the  *)
(* calls of configureModeAndSecurity on a Config built by hand               *)

\* the Config parseArguments returned, not yet configured
Parsed == pc = "returned" /\ result = <<>>

ConfigureParsed ==
  /\ Parsed
  /\ LET o == configureModeAndSecurity(config, proc.env)
     IN  /\ pc' = IF o.kind = "returned" THEN "configured" ELSE o.kind
         /\ result' = o.value
         /\ proc' = [proc EXCEPT !.env = o.env]
         /\ thrownAt' = o.line
  /\ UNCHANGED <<argv, envPaths, fs, repoName, index, config, searched,
                 requiredRepositories, envMap>>

NextPass == Next \/ ConfigureParsed \/ ConfigureModeAndSecurity

InitPass == Init \/ InitConfigure

SpecPass == InitPass /\ [][NextPass]_vars

-----------------------------------------------------------------------------
(* Properties of parseArguments                                            *)

RequiredValueFlags ==
  { FLAGS_PLUGINS_ROOT, FLAGS_PLUGINS_ROOT_WDP, FLAGS_PLUGINS_ROOT_WZ_HOME,
    FLAGS_OS_VERSION, FLAGS_OSD_VERSION, FLAGS_AGENTS_UP, FLAGS_SERVER,
    FLAGS_SERVER_LOCAL, FLAGS_REPO }

PlainValue(tok) == Truthy(tok) /\ ~StartsWith(tok, <<"-">>)

\* a well-formed --repo value: name=/absolute/path with a single "=" and no
\* /plugins/ segment, or a shorthand name whose sibling folder is accessible
WellFormedRepoSpec(tok) ==
  /\ PlainValue(tok)
  /\ IF Includes(tok, <<"=">>)
     THEN /\ Len(Split(tok, "=")) = 2
          /\ Truthy(Split(tok, "=")[1])
          /\ StartsWith(Split(tok, "=")[2], <<"/">>)
          /\ ~Includes(Split(tok, "=")[2], <<"/", "plugins", "/">>)
     ELSE /\ Truthy(envPaths.siblingRepoHostRoot)
          /\ ~Includes(tok, <<"/">>)
          /\ Accessible(
               envPaths.siblingRepoHostRoot \o <<"/">>
                 \o (IF tok \in SECURITY_PLUGIN_ALIASES
                     THEN SECURITY_PLUGIN_REPO_NAME ELSE tok),
               envPaths, fs)

\* The argument grammar of the command line, read from position i (0-based):
\* an action token, a flag without a value, a flag with its required value,
\* or --base / --indexer-local followed by an optional value that is neither
\* a flag nor an action token.
RECURSIVE WellFormedFrom(_)
WellFormedFrom(i) ==
  IF i >= Len(argv) THEN TRUE
  ELSE LET tok == ArgAt(i)
           nxt == ArgAt(i + 1)
           optional == PlainValue(nxt) /\ nxt \notin allowedActions
       IN  CASE tok \in allowedActions \cup {FLAGS_SAML} -> WellFormedFrom(i + 1)
             [] tok \in {FLAGS_OS_VERSION, FLAGS_OSD_VERSION, FLAGS_SERVER,
                         FLAGS_SERVER_LOCAL} ->
                  PlainValue(nxt) /\ WellFormedFrom(i + 2)
             [] tok \in {FLAGS_PLUGINS_ROOT, FLAGS_PLUGINS_ROOT_WDP,
                         FLAGS_PLUGINS_ROOT_WZ_HOME} ->
                  /\ Truthy(nxt) /\ StartsWith(nxt, <<"/">>)
                  /\ Accessible(stripTrailingSlash(nxt), envPaths, fs)
                  /\ WellFormedFrom(i + 2)
             [] tok = FLAGS_AGENTS_UP ->
                  /\ nxt \in {<<"rpm">>, <<"deb">>, <<"without">>, <<"none">>, <<"0">>}
                  /\ WellFormedFrom(i + 2)
             [] tok = FLAGS_REPO -> WellFormedRepoSpec(nxt) /\ WellFormedFrom(i + 2)
             [] tok = FLAGS_BASE ->
                  IF optional
                  THEN /\ StartsWith(nxt, <<"/">>) =>
                            Accessible(stripTrailingSlash(nxt), envPaths, fs)
                       /\ WellFormedFrom(i + 2)
                  ELSE WellFormedFrom(i + 1)
             [] tok = FLAGS_INDEXER_LOCAL ->
                  IF optional THEN WellFormedFrom(i + 2) ELSE WellFormedFrom(i + 1)
             [] OTHER -> FALSE

\* the action tokens the grammar reads in positional place, from position i
RECURSIVE PositionalActions(_)
PositionalActions(i) ==
  IF i >= Len(argv) THEN <<>>
  ELSE LET tok == ArgAt(i)
           nxt == ArgAt(i + 1)
       IN  IF tok \in allowedActions THEN <<tok>> \o PositionalActions(i + 1)
           ELSE IF tok \in RequiredValueFlags THEN PositionalActions(i + 2)
           ELSE IF tok \in {FLAGS_BASE, FLAGS_INDEXER_LOCAL}
                   /\ PlainValue(nxt) /\ nxt \notin allowedActions
           THEN PositionalActions(i + 2)
           ELSE PositionalActions(i + 1)

Tokens == { argv[i] : i \in 1..Len(argv) }

\* a well-formed command line in an environment in which its paths resolve
WellFormedArgv ==
  /\ WellFormedFrom(0)
  /\ ~(FLAGS_SERVER \in Tokens /\ FLAGS_SERVER_LOCAL \in Tokens)
  /\ FLAGS_BASE \in Tokens => Truthy(envPaths.siblingRepoHostRoot)
  /\ Truthy(envPaths.currentRepoHostRoot) =>
       Accessible(envPaths.currentRepoHostRoot \o <<"/", "plugins">>, envPaths, fs)

\* C1: for every well-formed argv with exactly one positional action token,
\* parseArguments returns a Config whose action is that token.
C1_ActionOfWellFormedArgv ==
  (Ended /\ WellFormedArgv /\ Len(PositionalActions(0)) = 1)
    => (pc = "returned" /\ config.action = PositionalActions(0)[1])

\* --server and --server-local each occur in argv followed by a value
FlagWithValue(flag) ==
  \E i \in 1..(Len(argv) - 1) : argv[i] = flag /\ PlainValue(argv[i + 1])

BothServerFlagsSupplied ==
  FlagWithValue(FLAGS_SERVER) /\ FlagWithValue(FLAGS_SERVER_LOCAL)

\* C2 as stated: whenever both server flags are supplied with a value, the
\* call ends in a ValidationError and in nothing else.
C2_AlwaysValidationError ==
  (Ended /\ BothServerFlagsSupplied) => pc = "ValidationError"

BothServerFlagsScanned ==
  Truthy(config.serverFlagVersion) /\ Truthy(config.serverLocalFlagVersion)

AccessCheckLines == {202, 314, 337, 415, 430}

\* C2 as amended: once the scan has recorded a version for both --server and
\* --server-local, no Config is ever returned; the call ends in the
\* ValidationError of the conflict check unless it ended before that check:
\* at a help token, in another ValidationError, in the TypeError of a
\* trailing --repo, or in a ConfigurationError of the dashboard-base
\* detection or of a path accessibility check.
C2_ServerFlagsNeverCombine ==
  BothServerFlagsScanned =>
    /\ pc # "returned"
    /\ pc = "ValidationError" /\ thrownAt >= 433 => thrownAt = 435
    /\ pc = "ConfigurationError" => thrownAt \in AccessCheckLines \cup {400}
    /\ pc = "TypeError" => thrownAt = 274
    /\ pc = "exit" => proc.usage

C2_Witness ==
  /\ BothServerFlagsScanned
  /\ pc = "ValidationError"
  /\ thrownAt = 435
  /\ config.enableSaml

\* everything after the first "=" of a token
AfterFirstEquals(tok) ==
  LET i == CHOOSE k \in 1..Len(tok) :
             tok[k] = "=" /\ \A j \in 1..(k - 1) : tok[j] # "="
  IN  SubSeq(tok, i + 1, Len(tok))

ScansRepoInPlugins ==
  /\ Scanning({FLAGS_REPO})
  /\ ArgAt(index + 1) # Undefined
  /\ Includes(ArgAt(index + 1), <<"=">>)
  /\ Includes(AfterFirstEquals(ArgAt(index + 1)), <<"/", "plugins", "/">>)

\* C3: scanning --repo name=path whose path part (all that follows the first
\* "=") contains /plugins/ ends in a ValidationError and records no override.
C3_RepoInsidePluginsRejected ==
  [][ScansRepoInPlugins =>
       /\ pc' = "ValidationError"
       /\ config'.userRepositories = config.userRepositories]_vars

ScansValueFlagWithoutValue ==
  /\ Scanning(RequiredValueFlags)
  /\ ArgAt(index + 1) = Undefined \/ StartsWith(ArgAt(index + 1), <<"-">>)

\* C4: scanning a flag that requires a value, as the last token or followed
\* by a token that starts with "-", ends in a ValidationError.
C4_ValueFlagsRequireValue ==
  [][ScansValueFlagWithoutValue => pc' = "ValidationError"]_vars

\* bare tokens that are neither an action token nor the value of the flag
\* before them
StrayTokens ==
  { i \in 1..Len(argv) :
      /\ ~StartsWith(argv[i], <<"-">>)
      /\ argv[i] \notin allowedActions
      /\ i = 1 \/ argv[i - 1] \notin
                    RequiredValueFlags \cup {FLAGS_BASE, FLAGS_INDEXER_LOCAL} }

\* action tokens that are not the value of a flag that requires one
ActionTokens ==
  { i \in 1..Len(argv) :
      /\ argv[i] \in allowedActions
      /\ i = 1 \/ argv[i - 1] \notin RequiredValueFlags }

\* C5: the action is set at most once: an argv in which an action token
\* occurs twice in positional place, or which holds a bare token that is
\* neither an action token nor the value of the flag before it, is never
\* parsed into a Config.
C5_ActionSetAtMostOnce ==
  (Cardinality(ActionTokens) >= 2 \/ StrayTokens # {}) => pc # "returned"

ScansShorthandRepo ==
  /\ Scanning({FLAGS_REPO})
  /\ Truthy(ArgAt(index + 1))
  /\ ~Includes(ArgAt(index + 1), <<"=">>)
  /\ ~Includes(ArgAt(index + 1), <<"/">>)
  /\ Truthy(envPaths.siblingRepoHostRoot)

ShorthandFolder(name) ==
  IF name \in {<<"security">>, <<"wazuh", "-", "security">>}
  THEN <<"wazuh", "-", "security", "-", "dashboards", "-", "plugin">>
  ELSE name

ShorthandPath(name) ==
  envPaths.siblingRepoHostRoot \o <<"/">> \o ShorthandFolder(name)

EndsWith(s, p) == Len(s) >= Len(p) /\ SubSeq(s, Len(s) - Len(p) + 1, Len(s)) = p

\* C8: scanning the shorthand --repo name (a folder name, without "/") with
\* a sibling root and an accessible inferred path records the override
\* {name, sibling root/folder}, the folder being the security plugin's
\* repository name for an alias and the name itself otherwise; for an alias
\* the recorded path does not end in the alias.
C8_ShorthandRepoPath ==
  [][(ScansShorthandRepo
        /\ Accessible(ShorthandPath(ArgAt(index + 1)), envPaths, fs))
       => LET name == ArgAt(index + 1)
          IN  /\ config'.userRepositories =
                   Append(config.userRepositories,
                          [name |-> name, path |-> ShorthandPath(name)])
              /\ pc' = "scan"
              /\ name \in SECURITY_PLUGIN_ALIASES =>
                   ~EndsWith(ShorthandPath(name), <<"/">> \o name)]_vars

C8_Witness ==
  /\ pc = "returned"
  /\ \E i \in 1..Len(config.userRepositories) :
       config.userRepositories[i] =
         [name |-> <<"security">>,
          path |-> SiblingRepoHostRoot \o <<"/">> \o SECURITY_PLUGIN_REPO_NAME]

-----------------------------------------------------------------------------
(* Properties of resolveRepositoryHostPath                                 *)

NamedOverrides ==
  { i \in 1..Len(config.userRepositories) :
      config.userRepositories[i].name = repoName }

LastNamedOverride ==
  config.userRepositories[CHOOSE i \in NamedOverrides :
                            \A j \in NamedOverrides : j <= i]

FirstNamedOverride ==
  config.userRepositories[CHOOSE i \in NamedOverrides :
                            \A j \in NamedOverrides : i <= j]

RECURSIVE WithoutTrailingSlashes(_)
WithoutTrailingSlashes(path) ==
  IF path # <<>> /\ path[Len(path)] = "/"
  THEN WithoutTrailingSlashes(SubSeq(path, 1, Len(path) - 1))
  ELSE path

\* C6: with several overrides of the same name, the path returned for that
\* name is the path of the last-listed one.
C6_LastOverrideWins ==
  (pc = "returned" /\ Cardinality(NamedOverrides) >= 2
     /\ \A i \in NamedOverrides :
          WithoutTrailingSlashes(config.userRepositories[i].path) # <<>>)
    => result = WithoutTrailingSlashes(LastNamedOverride.path)

\* the override the lookup selects has a path that is not empty once its
\* trailing slashes are stripped
OverrideGiven ==
  /\ NamedOverrides # {}
  /\ WithoutTrailingSlashes(FirstNamedOverride.path) # <<>>

-----------------------------------------------------------------------------
(* Properties of configureModeAndSecurity                                  *)

Configuring(mode) == pc = "configure" /\ config.mode = mode

VersionGiven == config.modeVersion # <<>> /\ config.modeVersion # Undefined

\* C9: with mode = server and a non-empty modeVersion the call returns the
\* server profile and sets WAZUH_STACK to modeVersion; with an empty or unset
\* modeVersion it raises ValidationError and leaves WAZUH_STACK as it was.
C9_ServerMode ==
  [][Configuring(<<"server">>) =>
       IF VersionGiven
       THEN /\ pc' = "returned"
            /\ result' = <<"server">>
            /\ proc'.env.WAZUH_STACK = config.modeVersion
       ELSE /\ pc' = "ValidationError"
            /\ proc'.env.WAZUH_STACK = proc.env.WAZUH_STACK]_vars

C9_Witness ==
  /\ pc = "returned"
  /\ config.mode = <<"server">>
  /\ result = <<"server">>
  /\ config.modeVersion = TOK_V1
  /\ proc.env.WAZUH_STACK = TOK_V1

\* C10: with mode = server-local the call raises ValidationError when
\* modeVersion is empty; otherwise it sets IMAGE_TAG to modeVersion and
\* returns server-local-<agentsUp> when agentsUp is set, server-local when
\* it is not.
C10_ServerLocalMode ==
  [][Configuring(<<"server", "-", "local">>) =>
       IF VersionGiven
       THEN /\ pc' = "returned"
            /\ proc'.env.IMAGE_TAG = config.modeVersion
            /\ result' = IF config.agentsUp # <<>>
                         THEN <<"server", "-", "local", "-">> \o config.agentsUp
                         ELSE <<"server", "-", "local">>
       ELSE pc' = "ValidationError"]_vars

C10_Witness ==
  /\ pc = "returned"
  /\ config.mode = <<"server", "-", "local">>
  /\ config.agentsUp = <<"rpm">>
  /\ result = <<"server", "-", "local", "-", "rpm">>
  /\ proc.env.IMAGE_TAG = config.modeVersion

CompositeMode(mode) ==
  /\ Len(mode) >= 4
  /\ SubSeq(mode, 1, 4) = <<"server", "-", "local", "-">>

\* C11: a call with a composite mode token server-local-<suffix> raises
\* ValidationError, whatever modeVersion, agentsUp and enableSaml are; no
\* profile is returned for it.
C11_CompositeModeRejected ==
  [][(pc = "configure" /\ CompositeMode(config.mode)) =>
       /\ pc' = "ValidationError"
       /\ result' = <<>>]_vars

C11_Witness ==
  /\ pc = "ValidationError"
  /\ thrownAt = 70
  /\ config.mode = <<"server", "-", "local", "-">>
  /\ config.enableSaml
  /\ config.modeVersion = TOK_V1
  /\ config.agentsUp = <<"rpm">>

-----------------------------------------------------------------------------
(* Properties of a resolution pass                                         *)

SamlFiles ==
  /\ proc.env.WAZUH_DASHBOARD_CONF =
       <<".", "/", "config", "/", "2.x", "/", "osd", "/",
         "opensearch_dashboards_saml.yml">>
  /\ proc.env.SEC_CONFIG_FILE =
       <<".", "/", "config", "/", "2.x", "/", "os", "/", "config", "-", "saml.yml">>

StandardFiles ==
  /\ proc.env.WAZUH_DASHBOARD_CONF =
       <<".", "/", "config", "/", "2.x", "/", "osd", "/", "opensearch_dashboards.yml">>
  /\ proc.env.SEC_CONFIG_FILE =
       <<".", "/", "config", "/", "2.x", "/", "os", "/", "config.yml">>

\* argv enables SAML and names no server flag
SamlAlone ==
  /\ FLAGS_SAML \in Tokens
  /\ Tokens \subseteq allowedActions \cup {FLAGS_SAML}

\* C12: after a successful configureModeAndSecurity the dashboard and
\* security configuration files are the SAML 2.x variants exactly when
\* enableSaml is true or mode = saml, and the standard 2.x files otherwise,
\* whatever profile is returned; the Config parsed from --saml alone has
\* mode = saml and configures to the saml profile.
C12_SamlFiles ==
  /\ pc \in {"configured", "returned"} /\ result # <<>> =>
       IF config.enableSaml \/ config.mode = <<"saml">>
       THEN SamlFiles ELSE StandardFiles
  /\ Parsed /\ SamlAlone => config.enableSaml /\ config.mode = <<"saml">>
  /\ pc = "configured" /\ SamlAlone => result = <<"saml">> /\ SamlFiles

C12_Witness ==
  /\ pc = "configured"
  /\ argv = <<TOK_UP, FLAGS_SAML>>
  /\ result = <<"saml">>
  /\ SamlFiles

-----------------------------------------------------------------------------
(* Properties of the Config parseArguments returns                         *)

\* the scan recorded a version for --server / for --server-local
ServerGiven == config.serverFlagVersion # <<>>

ServerLocalGiven == config.serverLocalFlagVersion # <<>>

\* C13: in every Config parseArguments returns, serverFlagVersion and
\* serverLocalFlagVersion are not both set; mode = server with modeVersion =
\* serverFlagVersion iff --server was given, mode = server-local with
\* modeVersion = serverLocalFlagVersion iff --server-local was given, mode =
\* saml iff neither was given and SAML is enabled, and mode is unset
\* otherwise; a server flag takes precedence over --saml.
C13_ModeOfReturnedConfig ==
  Parsed =>
    /\ ~(ServerGiven /\ ServerLocalGiven)
    /\ ServerGiven <=>
         (config.mode = <<"server">>
            /\ config.modeVersion = config.serverFlagVersion)
    /\ ServerLocalGiven <=>
         (config.mode = <<"server", "-", "local">>
            /\ config.modeVersion = config.serverLocalFlagVersion)
    /\ (~ServerGiven /\ ~ServerLocalGiven /\ config.enableSaml) <=>
         config.mode = <<"saml">>
    /\ (~ServerGiven /\ ~ServerLocalGiven /\ ~config.enableSaml) =>
         config.mode = <<>> /\ config.modeVersion = <<>>

C13_Witness ==
  /\ Parsed
  /\ config.enableSaml
  /\ ServerGiven
  /\ config.mode = <<"server">>
  /\ config.modeVersion = TOK_V1

-----------------------------------------------------------------------------
(* The process environment when a call fails                               *)

Raised == {"ValidationError", "ConfigurationError"}

InParseArguments == pc \in {"scan", "defaulting", "mapping"}

\* C14: when parseArguments or configureModeAndSecurity raises a
\* ValidationError or a ConfigurationError, the call has written no
\* environment variable: the environment is the one the call started with.
C14_NothingExportedOnError ==
  [][(pc \notin Raised /\ pc' \in Raised) =>
       /\ proc'.env = proc.env
       /\ InParseArguments => proc.env = NewProcess.env]_vars

-----------------------------------------------------------------------------
(* The dashboard base of the Config parseArguments returns                 *)

\* the positions of --base followed by an absolute path
BasePaths ==
  { i \in 1..(Len(argv) - 1) :
      argv[i] = FLAGS_BASE /\ argv[i + 1] # <<>> /\ argv[i + 1][1] = "/" }

LastBasePath ==
  argv[(CHOOSE i \in BasePaths : \A j \in BasePaths : j <= i) + 1]

AutoDetectedBase == envPaths.siblingRepoHostRoot \o <<"/", "wazuh", "-", "dashboard">>

\* the path is absolute and is seen from the container
AbsoluteAndAccessible(path) ==
  /\ path # <<>> /\ path[1] = "/"
  /\ \E root \in {"current", "sibling"} :
       LET hostRoot == IF root = "current" THEN envPaths.currentRepoHostRoot
                       ELSE envPaths.siblingRepoHostRoot
       IN  /\ hostRoot # <<>>
           /\ Len(path) >= Len(hostRoot)
           /\ SubSeq(path, 1, Len(hostRoot)) = hostRoot
           /\ <<"/", "mnt", "/", root>>
                \o SubSeq(path, Len(hostRoot) + 1, Len(path)) \in fs

-----------------------------------------------------------------------------
(* Properties of resolveRequiredRepositories                               *)

Requested == { requiredRepositories[i] : i \in 1..Len(requiredRepositories) }

\* the paths resolveRepositoryHostPath returns for a name, asked for alone
PathsOf(repo) ==
  { o.path : o \in { r \in resolveRepositoryHostPath(repo, config, envPaths, fs) :
                       r.kind = "returned" } }

\* the errors resolveRepositoryHostPath raises for a name, asked for alone
ErrorsOf(repo) ==
  { <<o.kind, o.line>> :
      o \in { r \in resolveRepositoryHostPath(repo, config, envPaths, fs) :
                r.kind # "returned" } }

\* the first requested name whose resolution fails
FirstFailing ==
  requiredRepositories[
    CHOOSE i \in 1..Len(requiredRepositories) :
      /\ PathsOf(requiredRepositories[i]) = {}
      /\ \A j \in 1..(i - 1) : PathsOf(requiredRepositories[j]) # {}]

\* C16: the mapping returned holds, for each requested name and for nothing
\* else, the entry envVarName(name) -> resolveRepositoryHostPath(name), the
\* path that name resolves to when asked for alone; when the resolution of
\* a requested name fails the call fails with the error of the first such
\* name and returns no mapping.
C16_MappingOfRequired ==
  /\ pc = "returned" =>
       /\ DOMAIN result = { <<"REPO_">> \o repo : repo \in Requested }
       /\ \A repo \in Requested : result[<<"REPO_">> \o repo] \in PathsOf(repo)
  /\ (\E repo \in Requested : PathsOf(repo) = {}) =>
       /\ pc # "returned"
       /\ result = <<>>
       /\ pc # "resolving" => <<pc, thrownAt>> \in ErrorsOf(FirstFailing)
  /\ (\A repo \in Requested : PathsOf(repo) # {}) => pc \in {"resolving", "returned"}

C16_Witness ==
  /\ pc = "returned"
  /\ requiredRepositories = <<REPO_B, REPO_A>>
  /\ result[<<"REPO_", "a">>] = <<"/", "cur", "/", "a">>
  /\ result[<<"REPO_", "b">>] = <<"/", "cur", "/", "y">>

-----------------------------------------------------------------------------
(* The help flag                                                           *)

ReachesHelp ==
  /\ pc = "scan"
  /\ index < Len(argv)
  /\ argv[index + 1] \in {FLAGS_HELP, FLAGS_HELP_SHORT}

\* C17: when the scanner reaches -h or --help, usage is printed and the
\* process exits at once with a non-zero status: the Config and the scan
\* index stay as they are, and nothing happens after the exit, so no later
\* token is processed, no Config is returned and no error is raised.
C17_HelpExitsAtOnce ==
  [][/\ ReachesHelp =>
          /\ pc' = "exit"
          /\ proc'.usage
          /\ proc'.exitCode > 0
          /\ config' = config
          /\ index' = index
          /\ thrownAt' = 0
     /\ pc # "exit"]_vars

C17_Witness ==
  /\ pc = "exit"
  /\ proc.usage
  /\ proc.exitCode = 1
  /\ argv = <<FLAGS_HELP_SHORT, TOK_BOGUS>>
  /\ index = 0

-----------------------------------------------------------------------------
(* The optional value of --base and --indexer-local                        *)

ScansOptionalValueFlag ==
  /\ pc = "scan"
  /\ index < Len(argv)
  /\ argv[index + 1] \in {FLAGS_BASE, FLAGS_INDEXER_LOCAL}

\* the token after the flag is there, does not start with "-" and is no
\* action token
FollowedByValue ==
  /\ index + 1 < Len(argv)
  /\ argv[index + 2] # <<>>
  /\ argv[index + 2][1] # "-"
  /\ argv[index + 2] \notin {<<"up">>, <<"down">>, <<"stop">>, <<"start">>}

\* C19: scanning --base or --indexer-local consumes the token after the
\* flag only when that token neither starts with "-" nor is an action
\* token; otherwise the scan goes on at that token, which is then read as
\* a flag or an action in its own right.
C19_OptionalValue ==
  [][(ScansOptionalValueFlag /\ pc' = "scan") =>
       index' = IF FollowedByValue THEN index + 2 ELSE index + 1]_vars

-----------------------------------------------------------------------------
(* The candidate-base search of resolveRepositoryHostPath                  *)

NoOverride ==
  \/ NamedOverrides = {}
  \/ WithoutTrailingSlashes(FirstNamedOverride.path) = <<>>

\* the candidate bases in search order, without their trailing slashes
SearchBases ==
  (IF config.pluginsRoot # <<>>
   THEN <<WithoutTrailingSlashes(config.pluginsRoot)>> ELSE <<>>)
    \o <<WithoutTrailingSlashes(envPaths.currentRepoHostRoot)>>
    \o (IF envPaths.siblingRepoHostRoot # <<>>
        THEN << WithoutTrailingSlashes(envPaths.siblingRepoHostRoot)
                  \o <<"/", "wazuh", "-", "dashboard", "-", "plugins">>,
                WithoutTrailingSlashes(envPaths.siblingRepoHostRoot)
                  \o <<"/", "wazuh", "-", "dashboard">> >>
        ELSE <<>>)

\* every probe of the search in lexicographic (base, sub-path) order: probe
\* 3(b - 1) + k is the k-th sub-path of the b-th base
Probes ==
  [n \in 1..(3 * Len(SearchBases)) |->
     LET base == SearchBases[((n - 1) \div 3) + 1]
         k    == ((n - 1) % 3) + 1
     IN  IF k = 1 THEN base \o <<"/", "plugins", "/">> \o repoName
         ELSE IF k = 2 THEN base \o <<"/">> \o repoName
         ELSE base]

HasPrefix(path, prefix) ==
  Len(path) >= Len(prefix) /\ SubSeq(path, 1, Len(prefix)) = prefix

\* the container path of a host path, <<>> when it lies under no mount
ContainerOf(path) ==
  LET under(root) == root # <<>> /\ HasPrefix(path, root)
      rest(root)  == SubSeq(path, Len(root) + 1, Len(path))
  IN  IF under(envPaths.currentRepoHostRoot)
      THEN <<"/", "mnt", "/", "current">> \o rest(envPaths.currentRepoHostRoot)
      ELSE IF under(envPaths.siblingRepoHostRoot)
      THEN <<"/", "mnt", "/", "sibling">> \o rest(envPaths.siblingRepoHostRoot)
      ELSE <<>>

\* the probe is reachable in the container and holds a package manifest
Qualifies(n) ==
  /\ SearchBases[((n - 1) \div 3) + 1] # <<>>
  /\ ContainerOf(Probes[n]) # <<>>
  /\ ContainerOf(Probes[n]) \in fs
  /\ ContainerOf(Probes[n]) \o <<"/", "package.json">> \in fs

Qualifying == { n \in DOMAIN Probes : Qualifies(n) }

FirstQualifying == CHOOSE n \in Qualifying : \A m \in Qualifying : n <= m

\* C20: without an override and with currentRepoHostRoot set, the call
\* searches the bases pluginsRoot (if set), currentRepoHostRoot,
\* {sibling}/wazuh-dashboard-plugins, {sibling}/wazuh-dashboard and under
\* each probes {base}/plugins/{repoName}, {base}/{repoName}, {base}; it
\* returns the first probe of that order that is reachable in the container
\* and holds a package manifest, and raises ValidationError when none is.
C20_FirstQualifyingProbe ==
  (Ended /\ NoOverride /\ envPaths.currentRepoHostRoot # <<>>) =>
    /\ searched
    /\ IF Qualifying # {}
       THEN pc = "returned" /\ result = Probes[FirstQualifying]
       ELSE pc = "ValidationError" /\ thrownAt = 72 /\ result = <<>>

C20_Witness ==
  /\ pc = "returned"
  /\ searched
  /\ NoOverride
  /\ Cardinality(Qualifying) >= 2
  /\ FirstQualifying > 3
  /\ result = Probes[FirstQualifying]

-----------------------------------------------------------------------------
(* C21: every returned path has passed the accessibility check             *)

\* the host path has a container path and that container path exists
Reachable(path) ==
  /\ ContainerOf(path) # <<>>
  /\ ContainerOf(path) \in fs

\* the path the call settles on before lines 76-80: the first override of
\* the name when it is absolute, else the first qualifying probe
ChosenPath ==
  IF ~NoOverride
  THEN IF FirstNamedOverride.path[1] = "/"
       THEN WithoutTrailingSlashes(FirstNamedOverride.path)
       ELSE <<>>
  ELSE IF envPaths.currentRepoHostRoot # <<>> /\ Qualifying # {}
       THEN Probes[FirstQualifying]
       ELSE <<>>

\* C21: a path returned by resolveRepositoryHostPath, from an override or
\* from the search, is the chosen path and is reachable in the container;
\* when the chosen path is not reachable the call raises at the
\* accessibility check (line 76) and returns no path.
C21_ReturnedPathsAccessible ==
  /\ pc = "returned" => (result = ChosenPath /\ Reachable(result))
  /\ (pc # "resolve" /\ ChosenPath # <<>> /\ ~Reachable(ChosenPath))
       => (pc \in Raised /\ thrownAt = 76 /\ result = <<>>)

C21_Witness ==
  /\ pc \in Raised
  /\ thrownAt = 76
  /\ ~NoOverride
  /\ ContainerOf(ChosenPath) # <<>>
  /\ ContainerOf(ChosenPath) \notin fs

-----------------------------------------------------------------------------
(* C22: the returned profile follows the priority server, server-local,    *)
(* saml, standard                                                          *)

SamlRequested == config.enableSaml \/ config.mode = PROFILES_SAML

ProfileByPriority ==
  IF config.mode = PROFILES_SERVER THEN PROFILES_SERVER
  ELSE IF config.mode = PROFILES_SERVER_LOCAL
  THEN IF Truthy(config.agentsUp)
       THEN PROFILES_SERVER_LOCAL \o <<"-">> \o config.agentsUp
       ELSE PROFILES_SERVER_LOCAL
  ELSE IF SamlRequested THEN PROFILES_SAML
  ELSE PROFILES_STANDARD

\* C22: a call of configureModeAndSecurity that returns yields server when
\* mode = server, else server-local (with the agents-up suffix when set)
\* when mode = server-local, else saml when enableSaml is true or
\* mode = saml, else standard.
C22_ProfileByPriority ==
  pc = "returned" => result = ProfileByPriority

\* the same priority for a Config produced by parseArguments
C22_ParsedProfileByPriority ==
  pc = "configured" => result = ProfileByPriority

-----------------------------------------------------------------------------
(* C23: the scan of parseArguments terminates                              *)

InScanLoop == pc = "scan" /\ index < Len(argv)

ScanLeft == pc \in {"ValidationError", "ConfigurationError", "TypeError", "exit"}

\* one iteration of the loop advances the index, raises or exits
ScanAdvances == InScanLoop => (index' > index \/ ScanLeft')

\* the loop is left as soon as the index reaches the end of argv
ScanInBounds == pc = "scan" => index <= Len(argv)

ScanEnded == pc # "scan" \/ index >= Len(argv)

\* under fairness the scan of every argv ends
ScanEventuallyEnds == <>ScanEnded

\* C23: every iteration of the scan loop of parseArguments strictly advances
\* the index, raises an error or exits the process, and the index of a
\* running scan never passes the end of argv: the index starts at 0, so the
\* loop runs at most Len(argv) times.
C23_ScanTerminates ==
  /\ [][ScanAdvances]_vars
  /\ []ScanInBounds

C23_Witness ==
  /\ pc = "defaulting"
  /\ Len(argv) >= 4
  /\ index = Len(argv)
  /\ config.enableSaml

=============================================================================
